---- MODULE Spec2Model ----
(***************************************************************************)
(* September: replays the tag history of a repository, running a command   *)
(* once per tagged revision, with a JSON cache file as the checkpoint.     *)
(* Model of src/september.py: main() as a sequence of steps, the cache     *)
(* file and directories it touches, and the process being killed.          *)
(***************************************************************************)
EXTENDS Naturals, Sequences, FiniteSets

VARIABLES
    tmpDirExists,   \* the directory tmp_dir exists
    fileState,      \* cache_file: "absent", "torn" (opened for writing, dump not finished), "complete"
    fileTags,       \* members of the "tags" object of a complete cache_file, in file order
    cloneExists,    \* the directory tmp_dir/clone exists
    pc,             \* position of the process in main(); "idle" when no process runs
    opts,           \* res.status, res.scan_only, first_tag, tag_pattern of this invocation
    stream,         \* the pairs getTags yields in this invocation
    pos,            \* index of the next pair of stream
    reached_first_tag,
    cache,          \* cache['tags'] (previous_tags), in dict order
    it,             \* index of the current item of cache['tags'].items()
    exit,           \* how the last invocation ended: "ok", "error" (an exception),
                    \* "no backend", "no command" (sys.exit(1)), "killed"
    runs,           \* invocations started so far
    loaded,         \* history: cache['tags'] as loaded at startup
    scanned,        \* history: cache['tags'] at the end of the reconciliation loop
    done,           \* history: <<tag, id>> pairs whose command returned zero
    events,         \* history: provider calls, commands and saves of this invocation
    attempt         \* history: cache_file contents when the current tag's attempt began

vars == <<tmpDirExists, fileState, fileTags, cloneExists, pc, opts, stream, pos,
          reached_first_tag, cache, it, exit, runs, loaded, scanned, done,
          events, attempt>>

fsVars == <<tmpDirExists, fileState, fileTags, cloneExists>>
scanVars == <<pos, reached_first_tag>>
histVars == <<loaded, scanned, done, attempt>>

----------------------------------------------------------------------------
(* Bounds and universes *)

\* Invocations in one behaviour of Spec.
MaxRuns == 2
\* Entries of a cache a scan of SpecScan starts from.
MaxCacheLen == 2

Tags == {"v1", "v2", "v3"}
Ids == {"a", "b"}
None == "None"

\* Values of the first_tag option: unset, or a tag name.
FirstTags == {None, "v2", "v3"}
\* Values of the tag_pattern option: unset, or a regular expression.
TagPatterns == {None, "[12]$", "2$"}

\* The repository the invocations of Spec run against: two tags, a pattern
\* that accepts one of them and a pattern that is not a regular expression.
RepoTags == {"v1", "v2"}
RepoFirstTags == {None, "v2"}
RepoPatterns == {None, "2$", "["}

Record(t, i, p) == [tag |-> t, id |-> i, processed |-> p]
Records == [tag : Tags, id : Ids, processed : BOOLEAN]
Pairs == [tag : Tags, id : Ids]

Range(s) == {s[k] : k \in 1..Len(s)}
Names(s) == {s[k].tag : k \in 1..Len(s)}
NoDup(s) == \A j, k \in 1..Len(s) : s[j].tag = s[k].tag => j = k

SeqsUpTo(S, n) == UNION {[1..m -> S] : m \in 0..n}

\* Tag listings (lines 40-47, 62-73): one pair per tag of the repository,
\* in the backend's order; a tag name is listed once.
Streams == {s \in SeqsUpTo(Pairs, Cardinality(Tags)) : NoDup(s)}
RepoStreams == {s \in SeqsUpTo([tag : RepoTags, id : Ids], Cardinality(RepoTags)) : NoDup(s)}
\* Cache contents a scan can start from.
Caches == {c \in SeqsUpTo(Records, MaxCacheLen) : NoDup(c)}

\* Line 121: the values --scm accepts.
ScmChoices == {"guess", "git", "mercurial"}

\* Lines 81-83: the keys of repo_class.
RepoClass == {"git", "hg"}

\* A repository argument as urlparse and os.path.isdir see it (lines 88-101).
Repo(scheme, netloc, path, isdir, has_git, has_hg) ==
    [scheme |-> scheme, netloc |-> netloc, path |-> path, isdir |-> isdir,
     has_git |-> has_git, has_hg |-> has_hg]

Repos ==
    {Repo("ssh", "git@host", "/r", FALSE, FALSE, FALSE),
     Repo("ssh", "hg@host", "/r", FALSE, FALSE, FALSE),
     Repo("ssh", "me@host", "/r", FALSE, FALSE, FALSE),
     Repo("https", "host", "/r.git", FALSE, FALSE, FALSE),
     Repo("https", "host", "/r", FALSE, FALSE, FALSE),
     Repo("http", "host", "/r.git", FALSE, FALSE, FALSE),
     Repo("", "", "/work/r", TRUE, TRUE, FALSE),
     Repo("", "", "/work/r", TRUE, FALSE, TRUE),
     Repo("", "", "/work/r", TRUE, TRUE, TRUE),
     Repo("", "", "/work/r", TRUE, FALSE, FALSE),
     Repo("", "", "/work/missing", FALSE, FALSE, FALSE)}

\* Lines 86-102: netloc.startswith and path.endswith on the repositories of Repos.
GuessRepoType(repo) ==
    IF repo.scheme = "ssh"
    THEN IF repo.netloc = "git@host" THEN "git"
         ELSE IF repo.netloc = "hg@host" THEN "hg"
         ELSE None
    ELSE IF repo.scheme = "https"
    THEN IF repo.path = "/r.git" THEN "git" ELSE None
    ELSE IF repo.scheme = "" /\ repo.netloc = "" /\ repo.isdir
    THEN IF repo.has_git THEN "git"
         ELSE IF repo.has_hg THEN "hg"
         ELSE None
    ELSE None

\* Lines 143-153: repo_type after the guess; None when main exits there.
RepoType(scm, repo) ==
    IF scm = "guess"
    THEN IF GuessRepoType(repo) = None THEN None
         ELSE IF GuessRepoType(repo) \notin RepoClass THEN None
         ELSE GuessRepoType(repo)
    ELSE scm

\* Lines 140-171: what main reads from the command line and the configuration
\* before the cache; command says whether the 'command' setting is there
\* (in the configuration file or as --command).
Flags == [status : BOOLEAN, scan_only : BOOLEAN, scm : ScmChoices, repo : Repos,
          command : BOOLEAN]

----------------------------------------------------------------------------
(* The cache dictionary: an insertion-ordered mapping, as a sequence of    *)
(* records with pairwise different tags.                                   *)

Has(d, t) == \E k \in 1..Len(d) : d[k].tag = t

IndexOf(d, t) == CHOOSE k \in 1..Len(d) : d[k].tag = t

Get(d, t) == d[IndexOf(d, t)]

\* del d[t]
DictDel(d, t) == SelectSeq(d, LAMBDA e : e.tag # t)

\* The key is deleted and inserted again, at the end.
DictSetAtEnd(d, t, i, p) ==
    Append(SelectSeq(d, LAMBDA e : e.tag # t), Record(t, i, p))

\* d[t] = {'id': i, 'processed': p}: in place for a known key, appended otherwise
DictSet(d, t, i, p) ==
    IF Has(d, t) THEN [d EXCEPT ![IndexOf(d, t)] = Record(t, i, p)]
                 ELSE Append(d, Record(t, i, p))

RECURSIVE JsonLoadFrom(_, _)
JsonLoadFrom(members, d) ==
    IF members = <<>> THEN d
    ELSE JsonLoadFrom(Tail(members),
                      DictSet(d, Head(members).tag, Head(members).id,
                              Head(members).processed))

\* json.load: members are inserted into a new dict in file order
JsonLoad(members) == JsonLoadFrom(members, <<>>)

\* json.dump: members are written in dict order
JsonDump(d) == [k \in 1..Len(d) |-> Record(d[k].tag, d[k].id, d[k].processed)]

----------------------------------------------------------------------------
(* Reconciliation *)

\* Line 209: re.compile(tag_pattern) returns; "[" is an unterminated
\* character set, for which it raises re.error.
Compiles(pattern) == pattern # "["

\* tag_re.search(t) for the patterns of TagPatterns
Search(pattern, t) ==
    CASE pattern = "[12]$" -> t \in {"v1", "v2"}
      [] pattern = "2$" -> t = "v2"
      [] OTHER -> FALSE

\* not tag_re or tag_re.search(t)
PassesFilter(pattern, t) == pattern = None \/ Search(pattern, t)

ReachedAfterNever(reached, first_tag, t) == reached

\* reached_first_tag after line 215-216
ReachedAfter(reached, first_tag, t) ==
    reached \/ first_tag = t

MovedAlways(rec, i) == TRUE

\* previous_tags[t]['id'] != i
Moved(rec, i) == rec.id # i

\* A moved tag gets the new id and keeps its flag.
ReconcilePairKeepFlag(d, inside, pattern, t, i) ==
    IF ~inside
    THEN IF Has(d, t) THEN DictDel(d, t) ELSE d
    ELSE IF PassesFilter(pattern, t)
         THEN IF ~Has(d, t) THEN DictSet(d, t, i, FALSE)
              ELSE IF Moved(Get(d, t), i) THEN DictSet(d, t, i, Get(d, t).processed)
              ELSE d
         ELSE d

\* The pattern is not consulted.
ReconcilePairUnfiltered(d, inside, pattern, t, i) ==
    IF ~inside
    THEN IF Has(d, t) THEN DictDel(d, t) ELSE d
    ELSE IF ~Has(d, t) THEN DictSet(d, t, i, FALSE)
         ELSE IF Moved(Get(d, t), i) THEN DictSet(d, t, i, FALSE)
         ELSE d

\* Outside the window only unprocessed records are removed.
ReconcilePairKeepProcessed(d, inside, pattern, t, i) ==
    IF ~inside
    THEN IF Has(d, t) /\ ~Get(d, t).processed THEN DictDel(d, t) ELSE d
    ELSE IF PassesFilter(pattern, t)
         THEN IF ~Has(d, t) THEN DictSet(d, t, i, FALSE)
              ELSE IF Moved(Get(d, t), i) THEN DictSet(d, t, i, FALSE)
              ELSE d
         ELSE d

\* A moved tag is deleted and inserted again, after every other record.
ReconcilePairMoveToEnd(d, inside, pattern, t, i) ==
    IF ~inside
    THEN IF Has(d, t) THEN DictDel(d, t) ELSE d
    ELSE IF PassesFilter(pattern, t)
         THEN IF ~Has(d, t) THEN DictSet(d, t, i, FALSE)
              ELSE IF Moved(Get(d, t), i) THEN DictSetAtEnd(d, t, i, FALSE)
              ELSE d
         ELSE d

\* A moved tag is dropped instead of replaced.
ReconcilePairDropMoved(d, inside, pattern, t, i) ==
    IF ~inside
    THEN IF Has(d, t) THEN DictDel(d, t) ELSE d
    ELSE IF PassesFilter(pattern, t)
         THEN IF ~Has(d, t) THEN DictSet(d, t, i, FALSE)
              ELSE IF Moved(Get(d, t), i) THEN DictDel(d, t)
              ELSE d
         ELSE d

\* Lines 218-230: body of the loop over tags for one pair (t, i), after the
\* window update.
ReconcilePair(d, inside, pattern, t, i) ==
    IF ~inside
    THEN IF Has(d, t) THEN DictDel(d, t) ELSE d
    ELSE IF PassesFilter(pattern, t)
         THEN IF ~Has(d, t) THEN DictSet(d, t, i, FALSE)
              ELSE IF Moved(Get(d, t), i) THEN DictSet(d, t, i, FALSE)
              ELSE d
         ELSE d

RECURSIVE ReconcileFrom(_, _, _, _, _)
ReconcileFrom(s, d, reached, first_tag, pattern) ==
    IF s = <<>> THEN d
    ELSE LET r == ReachedAfter(reached, first_tag, Head(s).tag)
         IN  ReconcileFrom(Tail(s),
                           ReconcilePair(d, r, pattern, Head(s).tag, Head(s).id),
                           r, first_tag, pattern)

\* The whole reconciliation loop over a listing.
Reconcile(s, d, first_tag, pattern) ==
    ReconcileFrom(s, d, first_tag = None, first_tag, pattern)

----------------------------------------------------------------------------
(* Initial state: no process runs and there is no cache file yet.          *)

ProcessedPairs(d) == {<<d[k].tag, d[k].id>> : k \in {j \in 1..Len(d) : d[j].processed}}

NoOptions == [status |-> FALSE, scan_only |-> FALSE, repo_type |-> "hg",
              first_tag |-> None, tag_pattern |-> None]

\* Memory of a process that has not loaded anything yet.
FreshProcess ==
    /\ stream' = <<>>
    /\ pos' = 1
    /\ reached_first_tag' = FALSE
    /\ cache' = <<>>
    /\ it' = 1
    /\ loaded' = <<>>
    /\ scanned' = <<>>
    /\ events' = <<>>
    /\ attempt' = <<>>

Init ==
    /\ pc = "idle"
    /\ opts = NoOptions
    /\ stream = <<>>
    /\ pos = 1
    /\ reached_first_tag = FALSE
    /\ cache = <<>>
    /\ it = 1
    /\ exit = "none"
    /\ runs = 0
    /\ loaded = <<>>
    /\ scanned = <<>>
    /\ events = <<>>
    /\ attempt = <<>>
    /\ done = {}
    /\ tmpDirExists \in BOOLEAN
    /\ fileState = "absent"
    /\ fileTags = <<>>
    /\ cloneExists = FALSE

----------------------------------------------------------------------------
(* Steps of main() *)

\* main returns or raises: the process is gone, its last memory is kept for inspection.
Exit(how) ==
    /\ pc' = "idle"
    /\ exit' = how

\* Lines 140-182: a new invocation parses its arguments and its configuration.
Start(f) ==
    /\ pc = "idle"
    /\ runs < MaxRuns
    /\ RepoType(f.scm, f.repo) # None
    /\ f.command
    /\ runs' = runs + 1
    /\ FreshProcess
    /\ opts' = [NoOptions EXCEPT !.status = f.status, !.scan_only = f.scan_only,
                                 !.repo_type = RepoType(f.scm, f.repo)]
    /\ pc' = "load"
    /\ exit' = "running"
    /\ UNCHANGED <<fsVars, done>>

\* Lines 145-150: the repository type cannot be guessed, sys.exit(1).
StartFail(f) ==
    /\ pc = "idle"
    /\ runs < MaxRuns
    /\ RepoType(f.scm, f.repo) = None
    /\ runs' = runs + 1
    /\ FreshProcess
    /\ opts' = [NoOptions EXCEPT !.status = f.status, !.scan_only = f.scan_only,
                                 !.repo_type = None]
    /\ Exit("no backend")
    /\ UNCHANGED <<fsVars, done>>

\* Lines 171-175: the repository type is accepted and there is no 'command'
\* setting, sys.exit(1); nothing has been loaded or listed.
StartNoCommand(f) ==
    /\ pc = "idle"
    /\ runs < MaxRuns
    /\ RepoType(f.scm, f.repo) # None
    /\ ~f.command
    /\ runs' = runs + 1
    /\ FreshProcess
    /\ opts' = [NoOptions EXCEPT !.status = f.status, !.scan_only = f.scan_only,
                                 !.repo_type = RepoType(f.scm, f.repo)]
    /\ Exit("no command")
    /\ UNCHANGED <<fsVars, done>>

\* Lines 185-190: load the cache file, or start from an empty cache.
Load ==
    /\ pc = "load"
    /\ fileState # "torn"
    /\ cache' = IF fileState = "complete" THEN JsonLoad(fileTags) ELSE <<>>
    /\ loaded' = cache'
    /\ pc' = "status"
    /\ UNCHANGED <<fsVars, opts, stream, scanVars, it, exit, runs, scanned,
                   done, events, attempt>>

\* Line 188: json.load raises on a file that is not a complete JSON text.
LoadFail ==
    /\ pc = "load"
    /\ fileState = "torn"
    /\ Exit("error")
    /\ UNCHANGED <<fsVars, opts, stream, scanVars, cache, it, runs, histVars, events>>

StatusOnlyNever(o) == FALSE

\* Line 193: if res.status
StatusOnly(o) == o.status

\* Lines 193-199: --status prints the cache and returns.
Status ==
    /\ pc = "status"
    /\ StatusOnly(opts)
    /\ Exit("ok")
    /\ UNCHANGED <<fsVars, opts, stream, scanVars, cache, it, runs, histVars, events>>

\* Line 202: repo_class[repo_type] raises KeyError.
RepoClassFail ==
    /\ pc = "status"
    /\ ~StatusOnly(opts)
    /\ opts.repo_type \notin RepoClass
    /\ Exit("no backend")
    /\ UNCHANGED <<fsVars, opts, stream, scanVars, cache, it, runs, histVars, events>>

\* Lines 41-44 and 63-70: GitRepo.getTags splits the bytes check_output
\* returns by a str, which raises TypeError; MercurialRepo.getTags asks for text.
ListingWorks(repo_type) == repo_type = "hg"

\* Lines 205-213: the options of the scan are read, the backend lists the tags.
GetTags(first_tag, tag_pattern, s) ==
    /\ pc = "status"
    /\ ~StatusOnly(opts)
    /\ opts.repo_type \in RepoClass
    /\ ListingWorks(opts.repo_type)
    /\ Compiles(tag_pattern)
    /\ opts' = [opts EXCEPT !.first_tag = first_tag, !.tag_pattern = tag_pattern]
    /\ stream' = s
    /\ reached_first_tag' = (first_tag = None)
    /\ pos' = 1
    /\ pc' = "reconcile"
    /\ events' = Append(events, <<"getTags">>)
    /\ UNCHANGED <<fsVars, cache, it, exit, runs, histVars>>

\* Lines 205-209: the options of the scan are read and re.compile(tag_pattern)
\* raises re.error; no provider operation has been called.
CompileFail(first_tag, tag_pattern) ==
    /\ pc = "status"
    /\ ~StatusOnly(opts)
    /\ opts.repo_type \in RepoClass
    /\ ~Compiles(tag_pattern)
    /\ opts' = [opts EXCEPT !.first_tag = first_tag, !.tag_pattern = tag_pattern]
    /\ Exit("error")
    /\ UNCHANGED <<fsVars, stream, scanVars, cache, it, runs, histVars, events>>

\* Lines 205-214: the options of the scan are read, then the first next() of
\* the listing raises (the backend's command fails, or GitRepo.getTags splits
\* bytes by a str).
GetTagsFail(first_tag, tag_pattern) ==
    /\ pc = "status"
    /\ ~StatusOnly(opts)
    /\ opts.repo_type \in RepoClass
    /\ Compiles(tag_pattern)
    /\ opts' = [opts EXCEPT !.first_tag = first_tag, !.tag_pattern = tag_pattern]
    /\ reached_first_tag' = (first_tag = None)
    /\ events' = Append(events, <<"getTags failed">>)
    /\ Exit("error")
    /\ UNCHANGED <<fsVars, stream, pos, cache, it, runs, histVars>>

\* Lines 214-230: one iteration of the loop over the listing.
ReconcileStep ==
    /\ pc = "reconcile"
    /\ pos <= Len(stream)
    /\ LET t == stream[pos].tag
           i == stream[pos].id
           r == ReachedAfter(reached_first_tag, opts.first_tag, t)
       IN  /\ reached_first_tag' = r
           /\ cache' = ReconcilePair(cache, r, opts.tag_pattern, t, i)
    /\ pos' = pos + 1
    /\ UNCHANGED <<fsVars, pc, opts, stream, it, exit, runs, histVars, events>>

\* Line 214: the listing is exhausted.
ReconcileDone ==
    /\ pc = "reconcile"
    /\ pos > Len(stream)
    /\ scanned' = cache
    /\ pc' = "save"
    /\ UNCHANGED <<fsVars, opts, stream, scanVars, cache, it, exit, runs,
                   loaded, done, attempt, events>>

\* Line 233: open(cache_file, 'w') truncates the file.
SaveOpen ==
    /\ pc = "save"
    /\ tmpDirExists
    /\ fileState' = "torn"
    /\ fileTags' = <<>>
    /\ pc' = "dump"
    /\ UNCHANGED <<tmpDirExists, cloneExists, opts, stream, scanVars, cache, it,
                   exit, runs, histVars, events>>

\* Line 233: open raises FileNotFoundError when tmp_dir does not exist.
SaveOpenFail ==
    /\ pc = "save"
    /\ ~tmpDirExists
    /\ Exit("error")
    /\ UNCHANGED <<fsVars, opts, stream, scanVars, cache, it, runs, histVars, events>>

\* Line 234: json.dump writes the cache and the file is closed.
SaveDump ==
    /\ pc = "dump"
    /\ fileState' = "complete"
    /\ fileTags' = JsonDump(cache)
    /\ pc' = "saved"
    /\ events' = Append(events, <<"save">>)
    /\ UNCHANGED <<tmpDirExists, cloneExists, opts, stream, scanVars, cache, it,
                   exit, runs, histVars>>

AfterScanAlwaysClone(scan_only) == "clone"

\* Line 236: what --scan-only does after the save.
AfterScan(scan_only) == IF scan_only THEN "return" ELSE "clone"

\* Lines 236-237
ScanOnlyReturn ==
    /\ pc = "saved"
    /\ AfterScan(opts.scan_only) = "return"
    /\ Exit("ok")
    /\ UNCHANGED <<fsVars, opts, stream, scanVars, cache, it, runs, histVars, events>>

\* Lines 240-243: first clone of the repository.
Clone ==
    /\ pc = "saved"
    /\ AfterScan(opts.scan_only) = "clone"
    /\ ~cloneExists
    /\ cloneExists' = TRUE
    /\ events' = Append(events, <<"clone">>)
    /\ pc' = "loop"
    /\ it' = 1
    /\ UNCHANGED <<tmpDirExists, fileState, fileTags, opts, stream, scanVars,
                   cache, exit, runs, histVars>>

\* Lines 244-247: pull into the existing clone and check out the default branch.
Pull ==
    /\ pc = "saved"
    /\ AfterScan(opts.scan_only) = "clone"
    /\ cloneExists
    /\ events' = Append(Append(events, <<"pull">>), <<"update", None, None>>)
    /\ pc' = "loop"
    /\ it' = 1
    /\ UNCHANGED <<fsVars, opts, stream, scanVars, cache, exit, runs, histVars>>

\* Lines 243, 246: check_call of the clone or of the pull raises.
CloneOrPullFail ==
    /\ pc = "saved"
    /\ AfterScan(opts.scan_only) = "clone"
    /\ events' = Append(events, <<IF cloneExists THEN "pull failed" ELSE "clone failed">>)
    /\ Exit("error")
    /\ UNCHANGED <<fsVars, opts, stream, scanVars, cache, it, runs, histVars>>

\* Lines 246-247: the pull succeeds and the update to the default branch raises.
PullUpdateFail ==
    /\ pc = "saved"
    /\ AfterScan(opts.scan_only) = "clone"
    /\ cloneExists
    /\ events' = Append(Append(events, <<"pull">>), <<"update failed", None, None>>)
    /\ Exit("error")
    /\ UNCHANGED <<fsVars, opts, stream, scanVars, cache, it, runs, histVars>>

SkippedNever(rec) == FALSE

\* Line 252: the test that skips a tag.
Skipped(rec) == rec.processed

\* Lines 251-254: a processed tag is skipped.
Skip ==
    /\ pc = "loop"
    /\ it <= Len(cache)
    /\ Skipped(cache[it])
    /\ it' = it + 1
    /\ UNCHANGED <<fsVars, pc, opts, stream, scanVars, cache, exit, runs,
                   histVars, events>>

UpdateTargetTip(rec) == None

\* Line 257: the revision passed to repo.update.
UpdateTarget(rec) == rec.id

\* Lines 256-257: check out the tag's revision.
Update ==
    /\ pc = "loop"
    /\ it <= Len(cache)
    /\ ~Skipped(cache[it])
    /\ events' = Append(events, <<"update", cache[it].tag, UpdateTarget(cache[it])>>)
    /\ attempt' = fileTags
    /\ pc' = "command"
    /\ UNCHANGED <<fsVars, opts, stream, scanVars, cache, it, exit, runs,
                   loaded, scanned, done>>

OnUpdateErrorIgnore == "ignore"

\* Line 257: where control goes when repo.update raises CalledProcessError.
OnUpdateError == "raise"

\* Line 257: check_call raises.
UpdateFail ==
    /\ pc = "loop"
    /\ it <= Len(cache)
    /\ ~Skipped(cache[it])
    /\ events' = Append(events, <<"update failed", cache[it].tag, UpdateTarget(cache[it])>>)
    /\ attempt' = fileTags
    /\ IF OnUpdateError = "raise"
       THEN Exit("error")
       ELSE pc' = "command" /\ exit' = exit
    /\ UNCHANGED <<fsVars, opts, stream, scanVars, cache, it, runs,
                   loaded, scanned, done>>

\* Lines 259-266: the command returns zero and the tag is marked.
Command ==
    /\ pc = "command"
    /\ events' = Append(events, <<"command", cache[it].tag, cache[it].id>>)
    /\ done' = done \cup {<<cache[it].tag, cache[it].id>>}
    /\ cache' = [cache EXCEPT ![it].processed = TRUE]
    /\ pc' = "checkpoint"
    /\ UNCHANGED <<fsVars, opts, stream, scanVars, it, exit, runs, loaded,
                   scanned, attempt>>

\* Lines 259-262: config_sec['command'] % {...} raises (KeyError for an unknown
\* placeholder, ValueError or TypeError for a conversion that does not apply);
\* the command is not started and nothing is written.
CommandFormatFail ==
    /\ pc = "command"
    /\ Exit("error")
    /\ UNCHANGED <<fsVars, opts, stream, scanVars, cache, it, runs, histVars, events>>

OnCommandErrorContinue == "continue"

\* Line 264: where control goes when check_call raises CalledProcessError.
OnCommandError == "raise"

\* Line 264: the command returns non-zero.
CommandFail ==
    /\ pc = "command"
    /\ events' = Append(events, <<"command failed", cache[it].tag, cache[it].id>>)
    /\ IF OnCommandError = "raise"
       THEN Exit("error") /\ it' = it
       ELSE pc' = "loop" /\ it' = it + 1 /\ exit' = exit
    /\ UNCHANGED <<fsVars, opts, stream, scanVars, cache, runs, histVars>>

\* The checkpoint is left for later: the loop goes on without writing.
CheckpointSkipped ==
    /\ pc = "checkpoint"
    /\ it' = it + 1
    /\ pc' = "loop"
    /\ UNCHANGED <<fsVars, opts, stream, scanVars, cache, exit, runs, histVars, events>>

\* Line 267: open(cache_file, 'w') truncates the file.
CheckpointOpen ==
    /\ pc = "checkpoint"
    /\ fileState' = "torn"
    /\ fileTags' = <<>>
    /\ pc' = "checkpoint_dump"
    /\ UNCHANGED <<tmpDirExists, cloneExists, opts, stream, scanVars, cache, it,
                   exit, runs, histVars, events>>

\* Line 268: json.dump writes the cache; the loop moves to the next item.
CheckpointDump ==
    /\ pc = "checkpoint_dump"
    /\ fileState' = "complete"
    /\ fileTags' = JsonDump(cache)
    /\ events' = Append(events, <<"save">>)
    /\ it' = it + 1
    /\ pc' = "loop"
    /\ UNCHANGED <<tmpDirExists, cloneExists, opts, stream, scanVars, cache,
                   exit, runs, histVars>>

\* Line 251: the items are exhausted, main returns.
LoopEnd ==
    /\ pc = "loop"
    /\ it > Len(cache)
    /\ Exit("ok")
    /\ UNCHANGED <<fsVars, opts, stream, scanVars, cache, it, runs, histVars, events>>

\* The process is killed between two steps; its memory is lost.
Kill ==
    /\ pc # "idle"
    /\ Exit("killed")
    /\ FreshProcess
    /\ opts' = NoOptions
    /\ UNCHANGED <<fsVars, runs, done>>

Next ==
    \/ \E f \in Flags : Start(f)
    \/ \E f \in Flags : StartFail(f)
    \/ \E f \in Flags : StartNoCommand(f)
    \/ RepoClassFail
    \/ Load
    \/ LoadFail
    \/ Status
    \/ \E ft \in RepoFirstTags, p \in RepoPatterns, s \in RepoStreams : GetTags(ft, p, s)
    \/ \E ft \in RepoFirstTags, p \in RepoPatterns : GetTagsFail(ft, p)
    \/ \E ft \in RepoFirstTags, p \in RepoPatterns : CompileFail(ft, p)
    \/ ReconcileStep
    \/ ReconcileDone
    \/ SaveOpen
    \/ SaveOpenFail
    \/ SaveDump
    \/ ScanOnlyReturn
    \/ Clone
    \/ Pull
    \/ CloneOrPullFail
    \/ PullUpdateFail
    \/ Skip
    \/ Update
    \/ UpdateFail
    \/ Command
    \/ CommandFail
    \/ CommandFormatFail
    \/ CheckpointOpen
    \/ CheckpointDump
    \/ LoopEnd
    \/ Kill

Spec == Init /\ [][Next]_vars

----------------------------------------------------------------------------
(* The reconciliation pass on its own: any cache, any listing, any options *)

InitScan ==
    /\ pc = "status"
    /\ opts = NoOptions
    /\ stream = <<>>
    /\ pos = 1
    /\ reached_first_tag = FALSE
    /\ cache \in Caches
    /\ it = 1
    /\ exit = "running"
    /\ runs = 1
    /\ loaded = cache
    /\ scanned = <<>>
    /\ events = <<>>
    /\ attempt = <<>>
    /\ done = ProcessedPairs(cache)
    /\ tmpDirExists = TRUE
    /\ fileState = "complete"
    /\ fileTags = JsonDump(cache)
    /\ cloneExists = TRUE

NextScan ==
    \/ \E ft \in FirstTags, p \in TagPatterns, s \in Streams : GetTags(ft, p, s)
    \/ ReconcileStep
    \/ ReconcileDone

SpecScan == InitScan /\ [][NextScan]_vars

----------------------------------------------------------------------------
(* A whole run over a cache some of whose tags the listing does not name:  *)
(* any cache, any listing that leaves out a tag, any options, then the     *)
(* save and the processing loop with every operation succeeding.           *)

\* Listings that do not name every tag.
FrameStreams == {s \in Streams : Names(s) # Tags}

NextFrame ==
    \/ \E ft \in FirstTags, p \in TagPatterns, s \in FrameStreams : GetTags(ft, p, s)
    \/ ReconcileStep
    \/ ReconcileDone
    \/ SaveOpen
    \/ SaveDump
    \/ Pull
    \/ Skip
    \/ Update
    \/ Command
    \/ CheckpointOpen
    \/ CheckpointDump
    \/ LoopEnd

SpecFrame == InitScan /\ [][NextFrame]_vars

----------------------------------------------------------------------------
(* Properties of the invocations (Spec) *)

\* The listing s gives tag t the revision id i.
Listed(s, t, i) == \E j \in 1..Len(s) : s[j].tag = t /\ s[j].id = i

\* Indices of the events of this invocation that run the command.
Executions == {k \in 1..Len(events) : events[k][1] \in {"command", "command failed"}}

\* The tag was processed at startup and the listing gives it the stored id.
ProcessedAndUnmoved(t) ==
    \E r \in Range(loaded) : r.tag = t /\ r.processed /\ Listed(stream, t, r.id)

\* C1 Resumability: an invocation (reconcile, save, processing loop) never
\* executes the command, nor is about to, for a tag whose record was
\* processed=true at startup and whose revision id in the listing is the
\* stored one.
C1_Resumability ==
    /\ \A k \in Executions : ~ProcessedAndUnmoved(events[k][2])
    /\ pc = "command" => ~ProcessedAndUnmoved(cache[it].tag)

\* A finished run that started with a processed, unmoved tag and ran the
\* command for another tag.
C1_Witness ==
    /\ pc = "idle"
    /\ exit = "ok"
    /\ \E r \in Range(loaded) : ProcessedAndUnmoved(r.tag)
    /\ \E k \in Executions : events[k][1] = "command"

\* C2 as claimed: exactly once; once the command has completed successfully
\* for a (tag, revision id) it is never started for that pair again, over
\* any sequence of invocations, killed ones included.
C2_ExactlyOnce ==
    pc = "command" => <<cache[it].tag, cache[it].id>> \notin done

\* C2 amended: the command is started for a (tag, revision id) only while the
\* cache file is complete and records that tag with that id as
\* processed=false; so a pair whose processed=true has been saved is not
\* started again while the file keeps that record.
C2_StartedOnlyIfUnsaved ==
    pc = "command" =>
        /\ fileState = "complete"
        /\ Has(fileTags, cache[it].tag)
        /\ Get(fileTags, cache[it].tag) = Record(cache[it].tag, cache[it].id, FALSE)

\* A later invocation is about to run the command while the file records an
\* earlier completion as processed.
C2_Witness ==
    /\ pc = "command"
    /\ runs > 1
    /\ \E r \in Range(fileTags) : r.processed /\ <<r.tag, r.id>> \in done

\* Completed commands the cache file still records as unprocessed.
Unrecorded ==
    {k \in 1..Len(fileTags) :
        ~fileTags[k].processed /\ <<fileTags[k].tag, fileTags[k].id>> \in done}

\* C3 Checkpoint validity: wherever the process may be killed, the cache file
\* is loadable (absent, or a complete JSON text), every processed=true entry
\* of it is one whose command completed for the stored revision id, and at
\* most one completed tag is still recorded processed=false.
C3_CheckpointValid ==
    /\ fileState \in {"absent", "complete"}
    /\ \A k \in 1..Len(fileTags) :
           fileTags[k].processed => <<fileTags[k].tag, fileTags[k].id>> \in done
    /\ Cardinality(Unrecorded) <= 1

\* C4 Failed command halts progress: after a tag's command exits non-zero the
\* run is over with an error and nothing follows the failed command in it
\* (no update, command or save), the tag is unprocessed in memory and in the
\* file, and the file is what it was when the tag's attempt began.
C4_FailedCommandHalts ==
    \A k \in 1..Len(events) :
        events[k][1] = "command failed" =>
            /\ k = Len(events)
            /\ pc = "idle"
            /\ exit = "error"
            /\ cache[it].tag = events[k][2]
            /\ ~cache[it].processed
            /\ fileState = "complete"
            /\ fileTags = attempt
            /\ ~Get(fileTags, events[k][2]).processed

\* A command failed while a later tag of the cache was still unprocessed.
C4_Witness ==
    /\ events # <<>>
    /\ events[Len(events)][1] = "command failed"
    /\ it < Len(cache)
    /\ ~cache[it + 1].processed

\* Tag and revision id of every entry, in order.
TagIds(d) == [k \in 1..Len(d) |-> <<d[k].tag, d[k].id>>]

\* C9 First run: a first invocation (no cache file at startup, tmp_dir
\* existing or not) that is not in status mode, gets its listing and is not
\* killed leaves a complete cache file that holds exactly the reconciled tags.
C9_FirstRun ==
    (/\ runs = 1
     /\ pc = "idle"
     /\ exit \in {"ok", "error"}
     /\ ~opts.status
     /\ events # <<>>
     /\ events[1] = <<"getTags">>)
    => /\ fileState = "complete"
       /\ TagIds(fileTags) = TagIds(scanned)

\* Events a scan-only invocation may produce.
ScanEvents == {<<"getTags">>, <<"getTags failed">>, <<"save">>}

\* C10 Scan-only mode: a --scan-only invocation calls no clone, pull, update
\* or command and never enters the processing loop; no record becomes
\* processed (a processed record is one loaded as such); and when it returns
\* normally (without --status) it has listed the tags once and saved the
\* reconciled cache once.
C10_ScanOnly ==
    opts.scan_only =>
        /\ \A k \in 1..Len(events) : events[k] \in ScanEvents
        /\ pc \notin {"loop", "command", "checkpoint", "checkpoint_dump"}
        /\ \A k \in 1..Len(cache) : cache[k].processed => cache[k] \in Range(loaded)
        /\ (pc = "idle" /\ exit = "ok" /\ ~opts.status) =>
               /\ events = << <<"getTags">>, <<"save">> >>
               /\ fileState = "complete"
               /\ fileTags = JsonDump(scanned)

\* A scan-only invocation returned after saving a cache with an unprocessed
\* tag it added.
C10_Witness ==
    /\ opts.scan_only
    /\ ~opts.status
    /\ pc = "idle"
    /\ exit = "ok"
    /\ \E k \in 1..Len(cache) : ~cache[k].processed /\ ~Has(loaded, cache[k].tag)
    /\ fileTags = JsonDump(cache)

----------------------------------------------------------------------------
(* Properties of the reconciliation pass (SpecScan) *)

\* Pair j of the listing is inside the window of first_tag.
InWindow(j) ==
    \/ opts.first_tag = None
    \/ \E f \in 1..j : stream[f].tag = opts.first_tag

\* Position of first_tag in the listing.
FirstPos == CHOOSE f \in 1..Len(stream) : stream[f].tag = opts.first_tag

\* C5 Idempotent scan: reconciling the same listing, with the same options,
\* against the result of the reconciliation pass gives that result again:
\* same keys, ids, flags and order.
C5_IdempotentScan ==
    pc = "save" =>
        Reconcile(stream, cache, opts.first_tag, opts.tag_pattern) = cache

\* A pass that removed a tag, added a tag and moved a tag.
C5_Witness ==
    /\ pc = "save"
    /\ \E r \in Range(loaded) : ~Has(cache, r.tag)
    /\ \E r \in Range(cache) : ~Has(loaded, r.tag)
    /\ \E r \in Range(cache) : Has(loaded, r.tag) /\ Get(loaded, r.tag).id # r.id

\* No record has a revision id other than the loaded one and processed=true.
C6_NoStaleProcessed ==
    pc \in {"reconcile", "save"} =>
        \A k \in 1..Len(cache) :
            (Has(loaded, cache[k].tag) /\ Get(loaded, cache[k].tag).id # cache[k].id)
                => ~cache[k].processed

\* A pair observed inside the window, passing the filter, for a cached tag
\* with another id: the record becomes {new id, processed=false}.
C6_MoveStep ==
    (/\ pc = "reconcile"
     /\ pos <= Len(stream)
     /\ InWindow(pos)
     /\ PassesFilter(opts.tag_pattern, stream[pos].tag)
     /\ Has(cache, stream[pos].tag)
     /\ Get(cache, stream[pos].tag).id # stream[pos].id)
    => /\ Has(cache', stream[pos].tag)
       /\ Get(cache', stream[pos].tag) = Record(stream[pos].tag, stream[pos].id, FALSE)

\* C6 Move detection: a cached tag observed inside the window, passing the
\* filter, with a different revision id becomes {new id, processed=false};
\* after reconciliation no record has an id different from its
\* pre-reconciliation value while still processed=true.
C6_MoveDetection == []C6_NoStaleProcessed /\ [][C6_MoveStep]_vars

\* A processed tag was moved by the pass.
C6_Witness ==
    /\ pc = "save"
    /\ \E r \in Range(loaded) :
           /\ r.processed
           /\ Has(cache, r.tag)
           /\ Get(cache, r.tag).id # r.id
           /\ ~Get(cache, r.tag).processed

\* The pass is over and the listing has tags before and after first_tag.
Straddles ==
    /\ pc = "save"
    /\ opts.first_tag # None
    /\ Has(stream, opts.first_tag)
    /\ 1 < FirstPos
    /\ FirstPos < Len(stream)

\* C7 as claimed: the cache after reconciliation retains first_tag and the
\* tags listed before it, and contains no tag listed after it.
C7_CutoffKeepsBefore ==
    Straddles =>
        \A j \in 1..Len(stream) :
            /\ (j <= FirstPos /\ (PassesFilter(opts.tag_pattern, stream[j].tag)
                                    \/ Has(loaded, stream[j].tag)))
                   => Has(cache, stream[j].tag)
            /\ j > FirstPos => ~Has(cache, stream[j].tag)

\* C7 amended: the cache after reconciliation contains no tag listed before
\* first_tag (a cached one is removed); first_tag and the tags listed after
\* it are in the cache exactly when they pass the filter or were cached.
C7_CutoffKeepsAfter ==
    Straddles =>
        \A j \in 1..Len(stream) :
            /\ j < FirstPos => ~Has(cache, stream[j].tag)
            /\ j >= FirstPos =>
                   (Has(cache, stream[j].tag) <=>
                       (PassesFilter(opts.tag_pattern, stream[j].tag)
                            \/ Has(loaded, stream[j].tag)))

\* A cached tag listed before first_tag was removed and a tag listed after
\* first_tag was added.
C7_Witness ==
    /\ Straddles
    /\ \E j \in 1..Len(stream) :
           j < FirstPos /\ Has(loaded, stream[j].tag) /\ ~Has(cache, stream[j].tag)
    /\ \E j \in 1..Len(stream) :
           j > FirstPos /\ ~Has(loaded, stream[j].tag) /\ Has(cache, stream[j].tag)

\* Every record under a name the pattern rejects is a loaded record, unchanged.
C8_NoCreate ==
    pc \in {"reconcile", "save"} =>
        \A k \in 1..Len(cache) :
            ~PassesFilter(opts.tag_pattern, cache[k].tag) => cache[k] \in Range(loaded)

\* A pair observed inside the window under a name the pattern rejects
\* leaves the whole cache as it is.
C8_FilteredStep ==
    (/\ pc = "reconcile"
     /\ pos <= Len(stream)
     /\ InWindow(pos)
     /\ ~PassesFilter(opts.tag_pattern, stream[pos].tag))
    => cache' = cache

\* C8 Pattern filter: reconciliation never creates a record for a name that
\* does not match tag_pattern, and a record cached under such a name that is
\* observed inside the window keeps its id, flag and position.
C8_PatternFilter == []C8_NoCreate /\ [][C8_FilteredStep]_vars

\* A cached record under a rejected name was listed inside the window with
\* another id and is unchanged; a rejected uncached name was listed too.
C8_Witness ==
    /\ pc = "save"
    /\ \E j \in 1..Len(stream) :
           /\ InWindow(j)
           /\ ~PassesFilter(opts.tag_pattern, stream[j].tag)
           /\ Has(loaded, stream[j].tag)
           /\ Get(loaded, stream[j].tag).id # stream[j].id
           /\ Has(cache, stream[j].tag)
           /\ Get(cache, stream[j].tag) = Get(loaded, stream[j].tag)
    /\ \E j \in 1..Len(stream) :
           /\ InWindow(j)
           /\ ~PassesFilter(opts.tag_pattern, stream[j].tag)
           /\ ~Has(loaded, stream[j].tag)
           /\ ~Has(cache, stream[j].tag)

----------------------------------------------------------------------------
(* Properties of the modes, the ordering of saves and the loop (Spec) *)

\* A step of a --status invocation leaves the file system and the record of
\* completed commands as they are and logs no provider call, command or save.
C11_StatusStep ==
    (opts.status /\ pc # "idle") =>
        /\ UNCHANGED fsVars
        /\ done' = done
        /\ events' = <<>>

\* A --status invocation has the cache as loaded and is never past the
\* status test.
C11_StatusState ==
    opts.status =>
        /\ events = <<>>
        /\ cache = loaded
        /\ pc \in {"idle", "load", "status"}

\* C11 Status mode: an invocation in status mode leaves everything unchanged:
\* the cache file is not written, the in-memory cache is not reconciled, and
\* no provider operation (list-tags, clone, pull, update) and no command is
\* invoked.
C11_StatusMode == []C11_StatusState /\ [][C11_StatusStep]_vars

\* A --status invocation returned with a cache that has an unprocessed tag.
C11_Witness ==
    /\ opts.status
    /\ pc = "idle"
    /\ exit = "ok"
    /\ \E r \in Range(loaded) : ~r.processed
    /\ fileTags = JsonDump(loaded)

\* C17 Backend selection: an invocation that got past the repository type
\* check has a type that maps to a backend implementation, and a selection
\* failure happens before the cache is loaded, reconciled or written and
\* before any provider operation.
C17_BackendSelection ==
    /\ pc # "idle" => opts.repo_type \in RepoClass
    /\ (pc = "idle" /\ exit = "no backend") =>
           /\ opts.repo_type = None
           /\ loaded = <<>>
           /\ events = <<>>

----------------------------------------------------------------------------
(* Window and order of the reconciliation pass (SpecScan) *)

\* The cache without the record of tag t.
Without(d, t) == SelectSeq(d, LAMBDA e : e.tag # t)

\* One pair: the flag after it says whether the pair is inside the window;
\* a pair outside the window removes the record of its name and nothing else.
C12_WindowStep ==
    (pc = "reconcile" /\ pos <= Len(stream)) =>
        /\ reached_first_tag' = InWindow(pos)
        /\ ~InWindow(pos) => cache' = Without(cache, stream[pos].tag)

\* After the pass no tag listed outside the window is in the cache; when
\* first_tag is set and never listed, that is every listed tag.
C12_WindowResult ==
    pc = "save" =>
        /\ \A j \in 1..Len(stream) : ~InWindow(j) => ~Has(cache, stream[j].tag)
        /\ (opts.first_tag # None /\ ~Has(stream, opts.first_tag)) =>
               /\ ~reached_first_tag
               /\ \A j \in 1..Len(stream) : ~Has(cache, stream[j].tag)

\* C12 Window tracking and removal: a pair is inside the window iff first_tag
\* is unset or the pair is the one named first_tag or comes after it; a pair
\* observed outside the window removes the cached record of that name and
\* creates none, whatever tag_pattern and the processed flag are; if
\* first_tag never occurs in the listing every pair is outside the window.
C12_Window == []C12_WindowResult /\ [][C12_WindowStep]_vars

\* first_tag is never listed; a processed record under a name the pattern
\* rejects was listed and is gone.
C12_Witness ==
    /\ pc = "save"
    /\ opts.first_tag # None
    /\ ~Has(stream, opts.first_tag)
    /\ \E r \in Range(loaded) :
           /\ r.processed
           /\ Has(stream, r.tag)
           /\ ~PassesFilter(opts.tag_pattern, r.tag)
           /\ ~Has(cache, r.tag)

\* C14 Order stability: records in the cache before and after the pass keep
\* their relative order (a moved tag keeps its place), and every record the
\* pass creates comes after every record that existed before it.
C14_OrderStable ==
    pc \in {"reconcile", "save"} =>
        \A j, k \in 1..Len(cache) :
            /\ (j < k /\ Has(loaded, cache[j].tag) /\ Has(loaded, cache[k].tag))
                   => IndexOf(loaded, cache[j].tag) < IndexOf(loaded, cache[k].tag)
            /\ (~Has(loaded, cache[j].tag) /\ Has(loaded, cache[k].tag)) => k < j

\* The first of two kept records was moved and a new record was appended.
C14_Witness ==
    /\ pc = "save"
    /\ Len(cache) = 3
    /\ Has(loaded, cache[1].tag)
    /\ Get(loaded, cache[1].tag).id # cache[1].id
    /\ Has(loaded, cache[2].tag)
    /\ ~Has(loaded, cache[3].tag)

----------------------------------------------------------------------------
(* Ordering of saves, checkouts and commands (Spec) *)

\* Events that call the provider's clone, pull or update, or run the command.
Work == {"clone", "clone failed", "pull", "pull failed", "update",
         "update failed", "command", "command failed"}

\* C13 Persistence ordering: in every run the save after the reconciliation
\* pass comes before any clone, pull, update or command; a successful command
\* is followed by a save before anything else; and whenever an update or a
\* command is about to be invoked the file is complete and records
\* processed=true for every tag whose command succeeded in this run.
C13_PersistenceOrdering ==
    /\ \A k \in 1..Len(events) :
           /\ events[k][1] \in Work =>
                  (k > 2 /\ events[1] = <<"getTags">> /\ events[2] = <<"save">>)
           /\ (events[k][1] = "command" /\ k < Len(events)) => events[k + 1] = <<"save">>
    /\ pc \in {"loop", "command"} =>
           /\ fileState = "complete"
           /\ \A k \in 1..Len(events) :
                  events[k][1] = "command" =>
                      /\ Has(fileTags, events[k][2])
                      /\ Get(fileTags, events[k][2]) = Record(events[k][2], events[k][3], TRUE)

\* The command of a second tag is about to run after the first one succeeded.
C13_Witness ==
    /\ pc = "command"
    /\ \E k \in 1..Len(events) : events[k][1] = "command"

\* C15 Checkout failure is fatal: after provider.update fails for an
\* unprocessed tag the run is over with an error and nothing follows the
\* failed update in it (no command for the tag, no update or command for a
\* later tag, no save); the tag stays unprocessed in memory and in the file,
\* and the file is what it was before the update. (The update to the default
\* branch after a pull, line 247, is for no tag: its events carry None.)
C15_CheckoutFailureFatal ==
    \A k \in 1..Len(events) :
        (events[k][1] = "update failed" /\ events[k][2] # None) =>
            /\ k = Len(events)
            /\ pc = "idle"
            /\ exit = "error"
            /\ cache[it].tag = events[k][2]
            /\ ~cache[it].processed
            /\ fileState = "complete"
            /\ fileTags = attempt
            /\ ~Get(fileTags, events[k][2]).processed
            /\ \A j \in Executions : events[j][2] # events[k][2]

\* An update failed while a later tag of the cache was still unprocessed.
C15_Witness ==
    /\ events # <<>>
    /\ events[Len(events)][1] = "update failed"
    /\ events[Len(events)][2] # None
    /\ it < Len(cache)
    /\ ~cache[it + 1].processed

\* Indices of the command executions that come after execution k.
LaterExecutions(k) == {j \in Executions : j > k}

\* C16 Checkout-before-command: every command execution is immediately
\* preceded by the successful update to the revision id of that tag's record,
\* the command is for the tag and id of an unprocessed record of the
\* reconciled cache, and executions follow the order of the cache; the
\* process is about to run a command only right after that update.
C16_CheckoutBeforeCommand ==
    /\ \A k \in Executions :
           /\ k > 1
           /\ events[k - 1] = <<"update", events[k][2], events[k][3]>>
           /\ Has(scanned, events[k][2])
           /\ Get(scanned, events[k][2]) = Record(events[k][2], events[k][3], FALSE)
           /\ \A j \in LaterExecutions(k) :
                  IndexOf(scanned, events[k][2]) < IndexOf(scanned, events[j][2])
    /\ pc = "command" =>
           events[Len(events)] = <<"update", cache[it].tag, cache[it].id>>

\* Two commands ran, each after its own checkout.
C16_Witness ==
    /\ Cardinality(Executions) = 2
    /\ pc = "idle"
    /\ exit = "ok"

----------------------------------------------------------------------------
(* Unlisted tags and progress (Spec) *)

\* The records of d whose tag the listing does not name, in order.
Unlisted(d) == SelectSeq(d, LAMBDA e : ~Has(stream, e.tag))

\* The run went through the processing loop and returned.
Completed ==
    /\ pc = "idle"
    /\ exit = "ok"
    /\ ~opts.status
    /\ ~opts.scan_only

\* Record j of the cache is where it was among the records around it: the
\* records that were loaded before it are before it, those loaded after it
\* are after it, and every record the pass created is after it.
KeepsPlace(j) ==
    \A k \in 1..Len(cache) :
        /\ (Has(loaded, cache[k].tag) /\ k < j)
               => IndexOf(loaded, cache[k].tag) < IndexOf(loaded, cache[j].tag)
        /\ (Has(loaded, cache[k].tag) /\ j < k)
               => IndexOf(loaded, cache[j].tag) < IndexOf(loaded, cache[k].tag)
        /\ ~Has(loaded, cache[k].tag) => j < k

\* C18 Frame of reconciliation: the cached records whose tag does not occur
\* in the listing are, during and after the reconciliation pass, the same
\* records in the same order (none removed, none modified, none added), each
\* at its place among the other records (listed records that stay, moved or
\* not, keep their side of it and created records come after it), and a run
\* that returns from the processing loop has run the command for each of
\* them that was unprocessed.
C18_UnlistedKept ==
    /\ pc \in {"reconcile", "save", "dump", "saved"} =>
           /\ Unlisted(cache) = Unlisted(loaded)
           /\ \A j \in 1..Len(cache) : ~Has(stream, cache[j].tag) => KeepsPlace(j)
    /\ Completed =>
           \A r \in Range(Unlisted(loaded)) :
               ~r.processed => \E k \in Executions : events[k] = <<"command", r.tag, r.id>>

\* A run listed a tag that was not cached, kept two cached tags the listing
\* does not name in their order before the new record, and ran the command
\* for the one of them that was unprocessed.
C18_Witness ==
    /\ Completed
    /\ Len(Unlisted(loaded)) = 2
    /\ Len(cache) = 3
    /\ cache[1].tag = loaded[1].tag
    /\ cache[2].tag = loaded[2].tag
    /\ loaded[1].processed
    /\ ~loaded[2].processed
    /\ \E k \in Executions : events[k] = <<"command", loaded[2].tag, loaded[2].id>>

\* Events of a provider operation or a command that failed.
Failures == {"getTags failed", "clone failed", "pull failed", "update failed",
             "command failed"}

\* The successful executions of the command for record r in this run.
SuccessesFor(r) == {k \in Executions : events[k] = <<"command", r.tag, r.id>>}

\* The run ended at lines 259-262: the working copy was updated to a tag and
\* the command for it could not be built.
TemplateFailed ==
    /\ pc = "idle"
    /\ exit = "error"
    /\ events # <<>>
    /\ events[Len(events)][1] = "update"
    /\ events[Len(events)][2] # None

\* C19 Progress: a run in normal mode whose repository type was accepted and
\* which has a command configured that can be built for every tag, in which
\* no provider operation and no command failed and which was not killed,
\* ends normally with every record processed=true in memory and in
\* the file, having executed the command once for each record that was
\* unprocessed after reconciliation and for nothing else; a run that starts
\* from an all-processed cache which its listing leaves unchanged executes no
\* command.
C19_Progress ==
    (/\ pc = "idle"
     /\ exit \in {"ok", "error", "no backend"}
     /\ ~opts.status
     /\ ~opts.scan_only
     /\ opts.repo_type # None
     /\ ~TemplateFailed
     /\ \A k \in 1..Len(events) : events[k][1] \notin Failures)
    => /\ exit = "ok"
       /\ \A k \in 1..Len(cache) : cache[k].processed
       /\ fileState = "complete"
       /\ fileTags = JsonDump(cache)
       /\ \A r \in Range(scanned) :
              Cardinality(SuccessesFor(r)) = IF r.processed THEN 0 ELSE 1
       /\ Cardinality(Executions)
              = Cardinality({k \in 1..Len(scanned) : ~scanned[k].processed})
       /\ ((\A r \in Range(loaded) : r.processed) /\ scanned = loaded) => Executions = {}

====
